---- MODULE Spec2Model ----
(***************************************************************************)
(* Priority dispatch in Sierra: the Cortex Executive                       *)
(* (src/src/cortex_executive.py), the Event Bus (src/src/event_bus.py)     *)
(* and the Voice Cortex (src/src/voice_cortex.py).                         *)
(*                                                                         *)
(* Each dispatcher owns a queue.PriorityQueue (a binary heap driven by     *)
(* the items' "<"), one worker thread, and a few flags and counters.       *)
(* The three dispatchers do not share state, so one behaviour of this      *)
(* module follows ONE dispatcher, chosen in Init by `disp`.  The variables *)
(* carry the Cortex's attribute names; for the other two dispatchers they  *)
(* stand for:                                                              *)
(*     heap                  request_queue | event_queue | voice_queue     *)
(*     is_processing         is_processing |      -      | is_speaking     *)
(*     current_request       current_request |    -      | current_request *)
(*     processing_active     processing_active (both)    | processing      *)
(*     crisis_interventions  crisis_interventions |  -   | crisis_interruptions *)
(*     total_requests        total_requests | total_events_published | -   *)
(*                                                                         *)
(* Producers' calls (submit_request, publish, speak, shutdown) are atomic  *)
(* actions; the worker thread is a process whose position is `wpc`, so     *)
(* producers interleave with it between its statements.                    *)
(*                                                                         *)
(* Specifications:                                                         *)
(*     Spec           one dispatcher, producers, worker and shutdown       *)
(*     SpecBurst      the Voice Cortex under a burst of speak() calls      *)
(*     SpecBus        the Event Bus with its subscriber registry           *)
(*     SpecLive       normal operation (no shutdown), worker kept running  *)
(*     SpecSingleton  concurrent first calls of a constructor, statement   *)
(*                    by statement                                         *)
(*     SpecRace       concurrent submit_request / publish, statement by    *)
(*                    statement                                            *)
(***************************************************************************)
EXTENDS Integers, Sequences, FiniteSets, TLC

\* ------------------------------------------------------------------ bounds
\* Number of submit_request / publish / speak calls in one behaviour.
MaxSubmit == 3
\* Highest reading of the clock; a call reads the clock once, and the clock
\* may or may not have advanced since the previous call.
MaxClock == 1
\* The capacity of the Event Bus's audit trail (self.max_history, 1000 in the
\* source), scaled down so that eviction happens within MaxSubmit events.
max_history == 2
\* Number of entries the subscriber registry holds in one behaviour.
MaxSubscribe == 2
\* Number of threads that call a constructor, or a producer's operation,
\* concurrently.
MaxThreads == 2

\* ------------------------------------------------------- program constants
\* CortexPriority.CRISIS, EventPriority.CRITICAL, VoicePriority.CRITICAL
CRISIS == 1
\* CortexPriority.LOW
CortexLOW == 5
\* EventPriority.LOW, VoicePriority.LOW
LOW == 4

\* Event types, by number: the wildcard key "*" and two ordinary types.
Star == 0
danger_detected == 1
empathy_generated == 2
EventTypes == {Star, danger_detected, empathy_generated}

\* priority_filter=None of a Subscription.
NoFilter == 0

Dispatchers == {"cortex", "bus", "voice"}

\* The priority enum of each dispatcher, by value.
Priorities(d) == IF d = "cortex" THEN CRISIS..CortexLOW ELSE CRISIS..LOW

\* A task: CortexRequest, Event or the tuple (priority.value, timestamp,
\* VoiceRequest).  `id` is the position of the call in the submission
\* sequence (identity of the object); `text` stands for the VoiceRequest's
\* content (text, emotion, speed) and for the Event's event_type, 0 in a
\* CortexRequest.  A CortexRequest's callback
\* is read once, when the handler has returned, and is drawn there.
Task(i, p, t, txt) == [id |-> i, priority |-> p, timestamp |-> t, text |-> txt]

\* Python's None for current_request and for the worker's local `request`.
None == Task(0, 0, 0, 0)

VARIABLES
    disp,                  \* which dispatcher this behaviour follows
    heap,                  \* PriorityQueue.queue: the heap array
    clock,                 \* last reading of time.time() / datetime.now()
    nextId,                \* number of the next submission
    wpc,                   \* worker thread: "loop" | "get" | "got" | "handling" | "escalated" | "stopped" | "crashed"
    request,               \* worker thread's local variable `request` / `event`
    is_processing,
    current_request,
    processing_active,
    crisis_interventions,
    total_requests,
    critical_events,       \* Event Bus only
    total_events_processed,\* Event Bus only
    subscriptions,         \* Event Bus only: event type -> list of Subscription
    event_history,         \* Event Bus only: the audit trail, oldest first
    delivery,              \* history: the event last processed and the callbacks invoked for it
    cpc,                   \* constructing threads: each caller's position in Cls()
    instance,              \* cls._instance: 0 for None, else the number of the object
    initialized,           \* instance._initialized: "unset" | "False" | "True"
    lock,                  \* cls._lock: 0 when free, else the thread that holds it
    obtained,              \* what __new__ returned to each caller (0: nothing yet)
    queues,                \* how many PriorityQueue objects __init__ has created
    workers,               \* how many worker threads __init__ has started
    queued,                \* tasks waiting in the queue the instance refers to
    wstate,                \* each started worker thread: "idle" | "handling"
    ppc,                   \* producer threads: each one's position in its call
    reg,                   \* producer threads: each one's `priority` argument and loaded counter value
    query,                 \* the last get_event_history call: its arguments and the list it returned
    notify_list,           \* _process_event's local list `subscribers`: the subscriptions still to notify
    unsubscribed,          \* the last unsubscribe call: its arguments
    connected,             \* Derek client: self.connected
    websocket,             \* Derek client: self.websocket, "None" | "open" | "closed" (the connection is lost)
    handler,               \* Derek client: _connection_handler, "idle" | "connect" | "gather" | "sleep"
    send_task,             \* Derek client: the _send_loop task, "none" | "running" | "done"
    receive_task,          \* Derek client: the _receive_loop task, "none" | "running" | "done"
    outgoing_queue,        \* Derek client: number of messages in outgoing_queue
    messages_sent,         \* Derek client: self.messages_sent
    messages_received,     \* Derek client: self.messages_received
    attempts,              \* Derek client: calls of websockets.connect so far
    loop,                  \* Derek client: the event loop, "none" | "running" | "stopping" | "stopped"
    is_listening,          \* audio safety system: self.is_listening
    apc,                   \* audio safety system: each processing thread's position, "none" | "get" | "got" | "check" | "set" | "callbacks" | "voice" | "ended"
    crisis_mode_active,    \* audio safety system: self.crisis_mode_active
    chunks,                \* audio safety system: audio chunks taken from audio_queue so far
    crisis_callbacks_run,  \* history: runs of the crisis callbacks since the last reset_crisis_mode()
    crisis_messages,       \* history: crisis voice messages since the last reset_crisis_mode()
    last                   \* history: the most recent operation and its outcome

vars == <<disp, heap, clock, nextId, wpc, request, is_processing, current_request,
          processing_active, crisis_interventions, total_requests, critical_events,
          total_events_processed, subscriptions, event_history, delivery,
          cpc, instance, initialized, lock, obtained, queues, workers, queued, wstate,
          ppc, reg, query, notify_list, unsubscribed, connected, websocket, handler,
          send_task, receive_task, outgoing_queue, messages_sent, messages_received,
          attempts, loop, is_listening, apc, crisis_mode_active, chunks,
          crisis_callbacks_run, crisis_messages, last>>

\* The Event Bus's registry and audit trail, with the record of the last
\* delivery.
busVars == <<subscriptions, event_history, delivery>>

\* The threads that construct the dispatcher, and what they create.
ctorVars == <<cpc, instance, initialized, lock, obtained, queues, workers, queued, wstate>>

\* The producer threads that run submit_request / publish statement by
\* statement.
raceVars == <<ppc, reg>>

\* What the other operations and components keep.
\* The Derek protocol client.
derekVars == <<connected, websocket, handler, send_task, receive_task, outgoing_queue,
               messages_sent, messages_received, attempts, loop>>

\* The audio safety system.
audioVars == <<is_listening, apc, crisis_mode_active, chunks, crisis_callbacks_run,
               crisis_messages>>

otherVars == <<query, notify_list, unsubscribed, derekVars, audioVars>>

\* The observable state of the dispatcher object (no history, no clock).
DispatcherState == <<heap, wpc, request, is_processing, current_request, processing_active,
                     crisis_interventions, total_requests, critical_events,
                     total_events_processed>>

\* ------------------------------------------------------------ queue order
\* a < b as the queue evaluates it: "lt", "ge" (False) or "err" (TypeError).
\* CortexRequest.__lt__ and Event.__lt__ compare priority, then timestamp.
\* The Voice Cortex enqueues tuples (priority.value, timestamp, request):
\* tuples compare element by element, and two VoiceRequest objects that are
\* not equal have no "<" (the dataclass defines __eq__ only).
lt(a, b) ==
    IF a.priority # b.priority THEN (IF a.priority < b.priority THEN "lt" ELSE "ge")
    ELSE IF a.timestamp # b.timestamp THEN (IF a.timestamp < b.timestamp THEN "lt" ELSE "ge")
    ELSE IF disp = "voice" /\ a.text # b.text THEN "err"
    ELSE "ge"

Swap(arr, i, j) == [arr EXCEPT ![i] = arr[j], ![j] = arr[i]]

\* heapq's sift of arr[pos] towards the root (positions from 1): stops at the
\* first parent that is not greater, or where the comparison raises.
RECURSIVE siftdown(_, _, _)
siftdown(arr, startpos, pos) ==
    IF pos <= startpos THEN [heap |-> arr, err |-> FALSE]
    ELSE LET parentpos == pos \div 2
             c == lt(arr[pos], arr[parentpos])
         IN  IF c = "err" THEN [heap |-> arr, err |-> TRUE]
             ELSE IF c = "ge" THEN [heap |-> arr, err |-> FALSE]
             ELSE siftdown(Swap(arr, parentpos, pos), startpos, parentpos)

\* heapq's sift of arr[pos] to a leaf along the smaller children, followed by
\* siftdown from that leaf.
RECURSIVE siftup(_, _)
siftup(arr, pos) ==
    IF 2 * pos > Len(arr) THEN siftdown(arr, 1, pos)
    ELSE LET left == 2 * pos
             c == IF left + 1 <= Len(arr) THEN lt(arr[left], arr[left + 1]) ELSE "lt"
         IN  IF c = "err" THEN [heap |-> arr, err |-> TRUE]
             ELSE LET childpos == IF c = "lt" THEN left ELSE left + 1
                  IN  siftup(Swap(arr, childpos, pos), childpos)

\* heappush leaving a second reference to the item at the end of the array.
heappush_Twice(arr, item) ==
    [heap |-> Append(siftdown(Append(arr, item), 1, Len(arr) + 1).heap, item),
     err |-> siftdown(Append(arr, item), 1, Len(arr) + 1).err]

\* PriorityQueue._put: heappush appends, then sifts; a comparison that raises
\* leaves the item in the array where the sift stopped.
heappush(arr, item) == siftdown(Append(arr, item), 1, Len(arr) + 1)

\* PriorityQueue._get: heappop takes the last element, returns the root and
\* re-seats the last element from the root.  If a comparison raises, the
\* root has already been overwritten: no item is returned.
heappop(arr) ==
    LET n == Len(arr)
        lastelt == arr[n]
        rest == SubSeq(arr, 1, n - 1)
    IN  IF n = 1 THEN [item |-> lastelt, heap |-> <<>>, err |-> FALSE]
        ELSE LET r == siftup([rest EXCEPT ![1] = lastelt], 1)
             IN  [item |-> rest[1], heap |-> r.heap, err |-> r.err]

\* The drain loop of shutdown() / silence(): get_nowait() until the queue is
\* empty.  Only queue.Empty is caught, so a comparison error ends the loop
\* and leaves the call by exception.
RECURSIVE drain(_)
drain(arr) ==
    IF arr = <<>> THEN [heap |-> arr, err |-> FALSE]
    ELSE LET r == heappop(arr)
         IN  IF r.err THEN [heap |-> r.heap, err |-> TRUE] ELSE drain(r.heap)

\* ------------------------------------------------------------ operations
\* The record kept in `last`.  ret: what the call gave its caller ("True",
\* "False", "error" for an exception, "none" for no result); ok: whether the
\* handler returned; cb: how many times the callback was invoked in the
\* step; cb_success: the `success` field of the response it received.
Op(op, t, ret, ok, cb, cb_success) ==
    [op |-> op, id |-> t.id, priority |-> t.priority, ret |-> ret, ok |-> ok,
     has_callback |-> FALSE, cb |-> cb, cb_success |-> cb_success]

Threads == 1..MaxThreads

\* The attributes as __init__ sets them.
InitDispatcher ==
    /\ disp \in Dispatchers
    /\ heap = <<>>
    /\ clock = 0
    /\ nextId = 1
    /\ wpc = "loop"
    /\ request = None
    /\ is_processing = FALSE
    /\ current_request = None
    /\ processing_active = TRUE
    /\ crisis_interventions = 0
    /\ total_requests = 0
    /\ critical_events = 0
    /\ total_events_processed = 0
    /\ subscriptions = [event_type \in EventTypes |-> <<>>]
    /\ event_history = <<>>
    /\ delivery = [event |-> None, calls |-> <<>>]
    /\ last = Op("init", None, "none", FALSE, 0, FALSE)

\* Construction is over: one object, initialised once, one queue and one
\* worker thread, every caller holding the object.
Constructed ==
    /\ cpc = [t \in Threads |-> "done"]
    /\ instance = 1
    /\ initialized = "True"
    /\ lock = 0
    /\ obtained = [t \in Threads |-> 1]
    /\ queues = 1
    /\ workers = 1
    /\ queued = 0
    /\ wstate = [w \in Threads |-> "idle"]

\* No producer is inside a call.
ProducersIdle ==
    /\ ppc = [t \in Threads |-> "idle"]
    /\ reg = [t \in Threads |-> [priority |-> 0, loaded |-> 0]]

\* No event type and no instant given to get_event_history (None).
NoEventType == 0 - 1
NoSince == 0 - 1

\* No call of get_event_history so far.
NoQuery == [event_type |-> NoEventType, since |-> NoSince, limit |-> 0, events |-> <<>>]

OthersIdle ==
    /\ query = NoQuery
    /\ notify_list = <<>>
    /\ unsubscribed = [event_type |-> NoEventType, subscriber_id |-> ""]
    /\ connected = FALSE
    /\ websocket = "None"
    /\ handler = "idle"
    /\ send_task = "none"
    /\ receive_task = "none"
    /\ outgoing_queue = 0
    /\ messages_sent = 0
    /\ messages_received = 0
    /\ attempts = 0
    /\ loop = "none"
    /\ is_listening = FALSE
    /\ apc = [t \in Threads |-> "none"]
    /\ crisis_mode_active = FALSE
    /\ chunks = 0
    /\ crisis_callbacks_run = 0
    /\ crisis_messages = 0

\* The dispatcher after a construction by a single caller.
Init == InitDispatcher /\ Constructed /\ ProducersIdle /\ OthersIdle

\* SierraVoiceCortex.speaking_thread: set to None in __init__ and assigned
\* nowhere else.
speaking_thread == FALSE

\* ShouldInterrupt without the test of the current request's priority.
ShouldInterrupt_IgnoringCurrentPriority(p) ==
    /\ p = CRISIS
    /\ is_processing
    /\ current_request # None

\* ShouldInterrupt without the test of the submitted priority.
ShouldInterrupt_AnyPriority(p) ==
    /\ is_processing
    /\ current_request # None
    /\ current_request.priority # CRISIS

\* The guard of the interruption in submit_request and in speak: the
\* submitted priority is the top one, the busy flag is set, a current request
\* is recorded and it is not itself of the top priority.
ShouldInterrupt(p) ==
    /\ p = CRISIS
    /\ is_processing
    /\ current_request # None
    /\ current_request.priority # CRISIS

\* _interrupt_current: the value it leaves in is_processing / is_speaking.
\* The Cortex clears the flag; the Voice Cortex clears it only when a
\* speaking thread is recorded.
interrupt_current ==
    IF disp = "cortex" THEN FALSE
    ELSE IF is_processing /\ speaking_thread THEN FALSE ELSE is_processing

\* SierraCortexExecutive.submit_request(request_id, priority, mode, content,
\* callback): builds the request (reading the clock), interrupts on CRISIS,
\* enqueues, counts, returns True.
submit_request(p, tick) ==
    /\ disp = "cortex"
    /\ LET req == Task(nextId, p, clock + tick, 0)
           r == heappush(heap, req)
       IN  /\ heap' = r.heap
           /\ is_processing' = IF ShouldInterrupt(p) THEN interrupt_current ELSE is_processing
           /\ crisis_interventions' =
                  IF ShouldInterrupt(p) THEN crisis_interventions + 1 ELSE crisis_interventions
           /\ total_requests' = total_requests + 1
           /\ last' = Op("submit", req, "True", FALSE, 0, FALSE)
    /\ clock' = clock + tick
    /\ nextId' = nextId + 1
    /\ UNCHANGED <<disp, wpc, request, current_request, processing_active,
                   critical_events, total_events_processed>>
    /\ UNCHANGED busVars
    /\ UNCHANGED <<ctorVars, raceVars, otherVars>>

\* SierraEventBus.publish(event_type, source_module, data, priority): builds
\* the event (reading the clock), enqueues, counts, returns the event id.
publish(event_type, p, tick) ==
    /\ disp = "bus"
    /\ LET event == Task(nextId, p, clock + tick, event_type)
           r == heappush(heap, event)
       IN  /\ heap' = r.heap
           /\ total_requests' = total_requests + 1
           /\ critical_events' = IF p = CRISIS THEN critical_events + 1 ELSE critical_events
           /\ last' = Op("submit", event, "True", FALSE, 0, FALSE)
    /\ clock' = clock + tick
    /\ nextId' = nextId + 1
    /\ UNCHANGED <<disp, wpc, request, is_processing, current_request, processing_active,
                   crisis_interventions, total_events_processed>>
    /\ UNCHANGED busVars
    /\ UNCHANGED <<ctorVars, raceVars, otherVars>>

\* SierraVoiceCortex.speak(text, priority, emotion, speed) with text that is
\* empty or blank: returns False before anything else happens.
speak_empty(p) ==
    /\ disp = "voice"
    /\ last' = Op("submit", None, "False", FALSE, 0, FALSE)
    /\ UNCHANGED <<disp, heap, clock, nextId, wpc, request, is_processing, current_request,
                   processing_active, crisis_interventions, total_requests, critical_events,
                   total_events_processed>>
    /\ UNCHANGED busVars
    /\ UNCHANGED <<ctorVars, raceVars, otherVars>>

\* The utterances a speak() call with priority p at time t is drawn from.
\* The queue looks at the VoiceRequest only to compare two pending tuples of
\* equal priority and timestamp, and then only for equality, so the new
\* utterance is either that of such a pending request or one that none of
\* them has (the least such number).
Utterances(p, t) ==
    LET same == {heap[i].text : i \in {j \in 1..Len(heap) :
                     heap[j].priority = p /\ heap[j].timestamp = t}}
    IN  same \cup {CHOOSE n \in 1..(Len(heap) + 1) : n \notin same}

\* SierraVoiceCortex.speak(text, priority, emotion, speed) with a text:
\* builds the request (reading the clock), interrupts on CRITICAL, enqueues
\* the tuple (priority.value, timestamp, request), returns True.  The put
\* raises when the tuple comparison does.
speak(p, txt, tick) ==
    /\ disp = "voice"
    /\ LET req == Task(nextId, p, clock + tick, txt)
           r == heappush(heap, req)
       IN  /\ heap' = r.heap
           /\ is_processing' = IF ShouldInterrupt(p) THEN interrupt_current ELSE is_processing
           /\ crisis_interventions' =
                  IF ShouldInterrupt(p) THEN crisis_interventions + 1 ELSE crisis_interventions
           /\ last' = Op("submit", req, IF r.err THEN "error" ELSE "True", FALSE, 0, FALSE)
    /\ clock' = clock + tick
    /\ nextId' = nextId + 1
    /\ UNCHANGED <<disp, wpc, request, current_request, processing_active, total_requests,
                   critical_events, total_events_processed>>
    /\ UNCHANGED busVars
    /\ UNCHANGED <<ctorVars, raceVars, otherVars>>

\* SierraVoiceCortex.silence(): drains the queue, then, when the cortex is
\* speaking, calls _interrupt_current.  A comparison error of the drain
\* leaves the call by exception before that.
silence ==
    /\ disp = "voice"
    /\ LET d == drain(heap)
       IN  /\ heap' = d.heap
           /\ is_processing' = IF ~d.err /\ is_processing THEN interrupt_current
                                ELSE is_processing
           /\ last' = Op("silence", None, IF d.err THEN "error" ELSE "none", FALSE, 0, FALSE)
    /\ UNCHANGED <<disp, clock, nextId, wpc, request, current_request, processing_active,
                   crisis_interventions, total_requests, critical_events,
                   total_events_processed>>
    /\ UNCHANGED busVars
    /\ UNCHANGED <<ctorVars, raceVars, otherVars>>

\* shutdown(): clears the worker's run flag and drains the queue (the Voice
\* Cortex through silence(), whose interruption of the current speech goes
\* through _interrupt_current); the join that follows waits at most 2 s and
\* changes nothing.
shutdown ==
    /\ processing_active' = FALSE
    /\ LET d == drain(heap)
       IN  /\ heap' = d.heap
           /\ is_processing' =
                  IF disp = "voice" /\ ~d.err /\ is_processing THEN interrupt_current
                  ELSE is_processing
           /\ last' = Op("shutdown", None, IF d.err THEN "error" ELSE "none", FALSE, 0, FALSE)
    /\ UNCHANGED <<disp, clock, nextId, wpc, request, current_request, crisis_interventions,
                   total_requests, critical_events, total_events_processed>>
    /\ UNCHANGED busVars
    /\ UNCHANGED <<ctorVars, raceVars, otherVars>>

\* ------------------------------------------------------------ worker thread
\* _process_queue, loop head: `while self.processing_active`.
WorkerCheck ==
    /\ wpc = "loop"
    /\ wpc' = IF processing_active THEN "get" ELSE "stopped"
    /\ last' = Op("check", None, "none", FALSE, 0, FALSE)
    /\ UNCHANGED <<disp, heap, clock, nextId, request, is_processing, current_request,
                   processing_active, crisis_interventions, total_requests, critical_events,
                   total_events_processed>>
    /\ UNCHANGED busVars
    /\ UNCHANGED <<ctorVars, raceVars, otherVars>>

\* _process_queue, `queue.get(timeout=0.5)` on an empty queue: queue.Empty
\* after the timeout, `continue`.
WorkerTimeout ==
    /\ wpc = "get"
    /\ heap = <<>>
    /\ wpc' = "loop"
    /\ last' = Op("timeout", None, "none", FALSE, 0, FALSE)
    /\ UNCHANGED <<disp, heap, clock, nextId, request, is_processing, current_request,
                   processing_active, crisis_interventions, total_requests, critical_events,
                   total_events_processed>>
    /\ UNCHANGED busVars
    /\ UNCHANGED <<ctorVars, raceVars, otherVars>>

\* _process_queue, `queue.get(timeout=0.5)` on a non-empty queue: the worker
\* holds the item; an exception of the get is caught by the loop's
\* `except Exception` and the loop goes on.
WorkerDequeue ==
    /\ wpc = "get"
    /\ heap # <<>>
    /\ LET r == heappop(heap)
       IN  /\ heap' = r.heap
           /\ request' = IF r.err THEN request ELSE r.item
           /\ wpc' = IF r.err THEN "loop" ELSE "got"
           /\ last' = IF r.err THEN Op("dequeue_error", None, "error", FALSE, 0, FALSE)
                      ELSE Op("dequeue", r.item, "none", FALSE, 0, FALSE)
    /\ UNCHANGED <<disp, clock, nextId, is_processing, current_request, processing_active,
                   crisis_interventions, total_requests, critical_events,
                   total_events_processed>>
    /\ UNCHANGED busVars
    /\ UNCHANGED <<ctorVars, raceVars, otherVars>>

\* _process_request / _speak_request, first statements: the busy flag and the
\* current request are set.  _process_event sets nothing.
WorkerStart ==
    /\ wpc = "got"
    /\ wpc' = "handling"
    /\ is_processing' = IF disp = "bus" THEN is_processing ELSE TRUE
    /\ current_request' = IF disp = "bus" THEN current_request ELSE request
    /\ last' = Op("start", request, "none", FALSE, 0, FALSE)
    /\ UNCHANGED <<disp, heap, clock, nextId, request, processing_active,
                   crisis_interventions, total_requests, critical_events,
                   total_events_processed>>
    /\ UNCHANGED busVars
    /\ UNCHANGED <<ctorVars, raceVars, otherVars>>

\* AfterRequest without the except clause: the handler's exception ends the
\* worker thread.
AfterRequest_Uncaught(handler_ok, callback_ok) == IF handler_ok THEN "loop" ELSE "crashed"

\* Where the worker thread goes when the processing of a request ends: the
\* exceptions of the handler and of the callback are caught inside
\* _process_request / _speak_request / _process_event, so the loop goes on.
AfterRequest(handler_ok, callback_ok) == "loop"

\* BusyAfterRequest with the flag reset at the end of the try block instead
\* of in a finally clause.
BusyAfterRequest_NoFinally(handler_ok, callback_ok) == ~(handler_ok /\ callback_ok)

\* The busy flag when the processing of a request ends: the finally clause
\* of _process_request / _speak_request clears it on every path.
BusyAfterRequest(handler_ok, callback_ok) == FALSE

\* How many times _process_request invokes the request's callback: once,
\* after the handler returned, when a callback was supplied; a handler that
\* raised leads straight to the except clause.  Events and voice requests
\* carry no callback.
CallbackCalls(has_callback, handler_ok) ==
    IF disp = "cortex" /\ handler_ok /\ has_callback THEN 1 ELSE 0

\* ------------------------------------------------------------ Event Bus
Subscription(event_type, callback, subscriber_id, priority_filter) ==
    [event_type |-> event_type, callback |-> callback, subscriber_id |-> subscriber_id,
     priority_filter |-> priority_filter]

\* SierraEventBus.subscribe(event_type, callback, subscriber_id,
\* priority_filter): appends a Subscription to the list kept under the event
\* type (a key with no list and a key with an empty list behave alike) and
\* returns True.
subscribe(event_type, callback, subscriber_id, priority_filter) ==
    /\ disp = "bus"
    /\ subscriptions' = [subscriptions EXCEPT ![event_type] =
           Append(@, Subscription(event_type, callback, subscriber_id, priority_filter))]
    /\ last' = Op("subscribe", None, "True", FALSE, 0, FALSE)
    /\ UNCHANGED <<disp, heap, clock, nextId, wpc, request, is_processing, current_request,
                   processing_active, crisis_interventions, total_requests, critical_events,
                   total_events_processed, event_history, delivery>>
    /\ UNCHANGED <<ctorVars, raceVars, otherVars>>

\* _process_event, the audit trail: the event is appended and, when the list
\* has grown beyond max_history, its first entry is removed.
RecordEvent_EvictingNewest(history, event) ==
    IF Len(history) + 1 > max_history THEN history ELSE Append(history, event)

RecordEvent(history, event) ==
    IF Len(history) + 1 > max_history THEN Tail(Append(history, event))
    ELSE Append(history, event)

\* _process_event, the subscribers of an event: the list under its type,
\* extended by the list under "*".
Subscribers(event) == subscriptions[event.text] \o subscriptions[Star]

\* _process_event, the priority filter: a subscription with a filter is
\* skipped when the event's priority value is above the filter's.
PassesFilter(subscription, event) ==
    ~(subscription.priority_filter # NoFilter /\ event.priority > subscription.priority_filter)

\* Invoked with an exception of a callback ending the loop over the
\* subscribers.
Invoked_UntilFirstRaise(subscribers, callbacks_ok) ==
    IF callbacks_ok \/ subscribers = <<>> THEN subscribers ELSE <<Head(subscribers)>>

\* _process_event, the subscriptions whose callback is invoked, in order:
\* each call sits in its own try/except, so the loop goes through the whole
\* list whether the callbacks return or raise.
Invoked(subscribers, callbacks_ok) == subscribers

\* _process_event(event): what it leaves in the audit trail and which
\* callbacks it invokes.  callbacks_ok: the callbacks return (or all raise).
process_event(event, callbacks_ok) ==
    [event_history |-> RecordEvent(event_history, event),
     delivery |-> [event |-> event,
                   calls |-> Invoked(SelectSeq(Subscribers(event),
                                               LAMBDA sub : PassesFilter(sub, event)),
                                     callbacks_ok)]]

\* The rest of _process_request / _speak_request / _process_event: the
\* handler runs (returns or raises), the callback is invoked with a
\* CortexResponse(success=True), and the finally clause resets the busy flag
\* and the current request.  The Event Bus counts the event as processed.
WorkerComplete(handler_ok, has_callback, callback_ok) ==
    /\ wpc \in {"handling", "escalated"}
    /\ wpc' = AfterRequest(handler_ok, callback_ok)
    /\ is_processing' = IF disp = "bus" THEN is_processing
                        ELSE BusyAfterRequest(handler_ok, callback_ok)
    /\ current_request' = IF disp = "bus" THEN current_request ELSE None
    /\ request' = None
    /\ total_events_processed' =
           IF disp = "bus" THEN total_events_processed + 1 ELSE total_events_processed
    /\ last' = [Op("complete", request, "none", handler_ok,
                     CallbackCalls(has_callback, handler_ok),
                     CallbackCalls(has_callback, handler_ok) > 0)
                  EXCEPT !.has_callback = (disp = "cortex" /\ has_callback)]
    /\ IF disp = "bus"
       THEN /\ event_history' = process_event(request, handler_ok).event_history
            /\ delivery' = process_event(request, handler_ok).delivery
       ELSE UNCHANGED <<event_history, delivery>>
    /\ UNCHANGED <<disp, heap, clock, nextId, processing_active, crisis_interventions,
                   total_requests, critical_events, subscriptions>>
    /\ UNCHANGED <<ctorVars, raceVars, otherVars>>

Worker ==
    \/ WorkerCheck
    \/ WorkerTimeout
    \/ WorkerDequeue
    \/ WorkerStart
    \/ \E handler_ok \in BOOLEAN, has_callback \in BOOLEAN, callback_ok \in BOOLEAN :
           WorkerComplete(handler_ok, has_callback, callback_ok)

\* The calls of the producers: at most MaxSubmit enqueues, each reading a
\* clock that has advanced by `tick` since the previous reading.
Ticks == {tick \in 0..1 : clock + tick <= MaxClock}

Producer ==
    \/ /\ nextId <= MaxSubmit
       /\ \E p \in Priorities("cortex"), tick \in Ticks : submit_request(p, tick)
    \/ /\ nextId <= MaxSubmit
       /\ \E p \in Priorities("bus"), tick \in Ticks : publish(danger_detected, p, tick)
    \/ /\ nextId <= MaxSubmit
       /\ \E p \in Priorities("voice"), tick \in Ticks :
              \E txt \in Utterances(p, clock + tick) : speak(p, txt, tick)
    \/ \E p \in Priorities("voice") : speak_empty(p)
    \/ silence
    \/ shutdown

Next == Producer \/ Worker

Spec == Init /\ [][Next]_vars

\* ------------------------------------------------------------ a burst of speech
\* The Voice Cortex alone, under a burst of speak() calls: BurstSubmit calls
\* of the two most urgent priorities, every utterance different from the
\* pending ones, and no shutdown.
BurstSubmit == 7

HIGH == 2

InitBurst == Init /\ disp = "voice"

NextBurst ==
    \/ /\ nextId <= BurstSubmit
       /\ \E p \in {CRISIS, HIGH}, tick \in Ticks :
              speak(p, CHOOSE n \in 1..(Len(heap) + 1) :
                           n \notin {heap[i].text : i \in 1..Len(heap)}, tick)
    \/ Worker

SpecBurst == InitBurst /\ [][NextBurst]_vars

\* ------------------------------------------------------------ the Event Bus and its subscribers
\* The Event Bus alone, with modules subscribing while events are published
\* and processed: BusSubmit events of any type and of priority CRITICAL, HIGH
\* or NORMAL, published at one reading of the clock; at most MaxSubscribe
\* registry entries, under "*" or under one ordinary type, with two callbacks
\* and two subscriber ids.
BusSubmit == 2

NORMAL == 3

Callbacks == {1, 2}

SubscriberIds == {"A", "B"}

\* The number of Subscription objects in the registry.
Registered ==
    Len(subscriptions[Star]) + Len(subscriptions[danger_detected])
        + Len(subscriptions[empathy_generated])

InitBus == Init /\ disp = "bus"

NextBus ==
    \/ /\ nextId <= BusSubmit
       /\ \E event_type \in EventTypes, p \in CRISIS..NORMAL : publish(event_type, p, 0)
    \/ /\ Registered < MaxSubscribe
       /\ \E event_type \in {Star, danger_detected}, callback \in Callbacks,
             subscriber_id \in SubscriberIds, priority_filter \in {NoFilter, HIGH} :
              subscribe(event_type, callback, subscriber_id, priority_filter)
    \/ Worker

SpecBus == InitBus /\ [][NextBus]_vars

\* ------------------------------------------------------------ concurrent first construction
\* MaxThreads threads call the constructor of one dispatcher class (directly
\* or through get_cortex / get_event_bus / get_voice_cortex) before any
\* object exists.  Each statement of __new__ and __init__ is a step; the
\* body of __init__ after the flag is one step (it creates the queue and
\* starts the worker thread).  The workers that __init__ has started take
\* tasks from the queue the instance refers to, at most MaxQueued at a time.
MaxQueued == 2

\* The dispatcher's state outside the construction does not move here.
DispatcherVars ==
    <<disp, heap, clock, nextId, wpc, request, is_processing, current_request,
      processing_active, crisis_interventions, total_requests, critical_events,
      total_events_processed, busVars, raceVars, otherVars, last>>

CtorGoto(t, pc) == cpc' = [cpc EXCEPT ![t] = pc]

\* __new__: `if cls._instance is None:`
new_check(t) ==
    /\ cpc[t] = "new_check"
    /\ CtorGoto(t, IF instance = 0 THEN "new_lock" ELSE "new_return")
    /\ UNCHANGED <<instance, initialized, lock, obtained, queues, workers, queued, wstate>>
    /\ UNCHANGED DispatcherVars

\* __new__: `with cls._lock:`
new_lock(t) ==
    /\ cpc[t] = "new_lock"
    /\ lock = 0
    /\ lock' = t
    /\ CtorGoto(t, "new_check2")
    /\ UNCHANGED <<instance, initialized, obtained, queues, workers, queued, wstate>>
    /\ UNCHANGED DispatcherVars

\* __new__: the second `if cls._instance is None:`; when it fails the with
\* block ends and the lock is released.
new_check2(t) ==
    /\ cpc[t] = "new_check2"
    /\ CtorGoto(t, IF instance = 0 THEN "new_create" ELSE "new_return")
    /\ lock' = IF instance = 0 THEN lock ELSE 0
    /\ UNCHANGED <<instance, initialized, obtained, queues, workers, queued, wstate>>
    /\ UNCHANGED DispatcherVars

\* __new__: `cls._instance = super().__new__(cls)`: a new object, which has
\* no _initialized attribute yet.
new_create(t) ==
    /\ cpc[t] = "new_create"
    /\ instance' = instance + 1
    /\ initialized' = "unset"
    /\ CtorGoto(t, "new_flag")
    /\ UNCHANGED <<lock, obtained, queues, workers, queued, wstate>>
    /\ UNCHANGED DispatcherVars

\* __new__: `cls._instance._initialized = False`, end of the with block.
new_flag(t) ==
    /\ cpc[t] = "new_flag"
    /\ initialized' = "False"
    /\ lock' = 0
    /\ CtorGoto(t, "new_return")
    /\ UNCHANGED <<instance, obtained, queues, workers, queued, wstate>>
    /\ UNCHANGED DispatcherVars

\* __new__: `return cls._instance`; __init__ is then called on the object.
new_return(t) ==
    /\ cpc[t] = "new_return"
    /\ obtained' = [obtained EXCEPT ![t] = instance]
    /\ CtorGoto(t, "init_check")
    /\ UNCHANGED <<instance, initialized, lock, queues, workers, queued, wstate>>
    /\ UNCHANGED DispatcherVars

\* __init__: `if self._initialized: return`; reading the attribute of an
\* object that does not have it yet raises AttributeError.
init_check(t) ==
    /\ cpc[t] = "init_check"
    /\ CtorGoto(t, CASE initialized = "unset" -> "error"
                     [] initialized = "True" -> "done"
                     [] OTHER -> "init_flag")
    /\ UNCHANGED <<instance, initialized, lock, obtained, queues, workers, queued, wstate>>
    /\ UNCHANGED DispatcherVars

\* __init__: `self._initialized = True`
init_flag(t) ==
    /\ cpc[t] = "init_flag"
    /\ initialized' = "True"
    /\ CtorGoto(t, "init_body")
    /\ UNCHANGED <<instance, lock, obtained, queues, workers, queued, wstate>>
    /\ UNCHANGED DispatcherVars

\* __init__, the body: a new (empty) PriorityQueue is bound to the instance,
\* the attributes are set, and a worker thread is created and started.
init_body(t) ==
    /\ cpc[t] = "init_body"
    /\ queues' = queues + 1
    /\ queued' = 0
    /\ workers' = workers + 1
    /\ CtorGoto(t, "done")
    /\ UNCHANGED <<instance, initialized, lock, obtained, wstate>>
    /\ UNCHANGED DispatcherVars

\* A caller that holds the instance enqueues a task.
CtorSubmit(t) ==
    /\ cpc[t] = "done"
    /\ queues > 0
    /\ queued < MaxQueued
    /\ queued' = queued + 1
    /\ UNCHANGED <<cpc, instance, initialized, lock, obtained, queues, workers, wstate>>
    /\ UNCHANGED DispatcherVars

\* _process_queue of worker thread w: the get returns a task and the handler
\* is entered.
CtorWorkerTake(w) ==
    /\ w <= workers
    /\ wstate[w] = "idle"
    /\ queued > 0
    /\ queued' = queued - 1
    /\ wstate' = [wstate EXCEPT ![w] = "handling"]
    /\ UNCHANGED <<cpc, instance, initialized, lock, obtained, queues, workers>>
    /\ UNCHANGED DispatcherVars

\* _process_queue of worker thread w: the handler is left.
CtorWorkerDone(w) ==
    /\ w <= workers
    /\ wstate[w] = "handling"
    /\ wstate' = [wstate EXCEPT ![w] = "idle"]
    /\ UNCHANGED <<cpc, instance, initialized, lock, obtained, queues, workers, queued>>
    /\ UNCHANGED DispatcherVars

InitSingleton ==
    /\ InitDispatcher
    /\ ProducersIdle
    /\ OthersIdle
    /\ cpc = [t \in Threads |-> "new_check"]
    /\ instance = 0
    /\ initialized = "unset"
    /\ lock = 0
    /\ obtained = [t \in Threads |-> 0]
    /\ queues = 0
    /\ workers = 0
    /\ queued = 0
    /\ wstate = [w \in Threads |-> "idle"]

NextSingleton ==
    \E t \in Threads :
        \/ new_check(t)
        \/ new_lock(t)
        \/ new_check2(t)
        \/ new_create(t)
        \/ new_flag(t)
        \/ new_return(t)
        \/ init_check(t)
        \/ init_flag(t)
        \/ init_body(t)
        \/ CtorSubmit(t)
        \/ CtorWorkerTake(t)
        \/ CtorWorkerDone(t)

SpecSingleton == InitSingleton /\ [][NextSingleton]_vars

\* ------------------------------------------------------------ normal operation
\* Normal operation: shutdown() and silence() are never called, the
\* producers make at most MaxSubmit calls, every one of which reports
\* success (no call is left by an exception), every handler terminates and
\* the worker thread keeps being scheduled.
Accepted(item) == ~heappush(heap, item).err

NextLive ==
    \/ /\ nextId <= MaxSubmit
       /\ \E p \in Priorities("cortex"), tick \in Ticks : submit_request(p, tick)
    \/ /\ nextId <= MaxSubmit
       /\ \E p \in Priorities("bus"), tick \in Ticks : publish(danger_detected, p, tick)
    \/ /\ nextId <= MaxSubmit
       /\ \E p \in Priorities("voice"), tick \in Ticks :
              \E txt \in Utterances(p, clock + tick) :
                  /\ Accepted(Task(nextId, p, clock + tick, txt))
                  /\ speak(p, txt, tick)
    \/ Worker

SpecLive == Init /\ [][NextLive]_vars /\ WF_vars(Worker)

\* ------------------------------------------------------------ concurrent producers
\* MaxThreads producer threads call submit_request (Cortex) or publish (Event
\* Bus), MaxSubmit calls in all, while the worker is not scheduled.  Each
\* call is followed statement by statement: the put (one step: the queue
\* locks it), then `self.total_requests += 1`, which loads the attribute
\* and stores the sum, then, in publish with priority CRITICAL,
\* `self.critical_events += 1`, the same.
RaceFrame ==
    UNCHANGED <<disp, wpc, request, is_processing, current_request, processing_active,
                crisis_interventions, total_events_processed, busVars, ctorVars,
                otherVars>>

\* The call begins: the task is built and put in the queue.
call_put(t, p, tick) ==
    /\ ppc[t] = "idle"
    /\ disp # "voice"
    /\ LET item == Task(nextId, p, clock + tick, IF disp = "bus" THEN danger_detected ELSE 0)
       IN  /\ heap' = heappush(heap, item).heap
           /\ last' = Op("put", item, "none", FALSE, 0, FALSE)
    /\ clock' = clock + tick
    /\ nextId' = nextId + 1
    /\ ppc' = [ppc EXCEPT ![t] = "load_total"]
    /\ reg' = [reg EXCEPT ![t] = [priority |-> p, loaded |-> 0]]
    /\ UNCHANGED <<total_requests, critical_events>>
    /\ RaceFrame

\* `self.total_requests += 1` / `self.total_events_published += 1`: the load.
load_total(t) ==
    /\ ppc[t] = "load_total"
    /\ reg' = [reg EXCEPT ![t].loaded = total_requests]
    /\ ppc' = [ppc EXCEPT ![t] = "store_total"]
    /\ UNCHANGED <<heap, clock, nextId, total_requests, critical_events, last>>
    /\ RaceFrame

\* `self.total_requests += 1` / `self.total_events_published += 1`: the
\* store; submit_request then returns True, publish goes on to the test of
\* the priority and returns the event id when it is not CRITICAL.
store_total(t) ==
    /\ ppc[t] = "store_total"
    /\ total_requests' = reg[t].loaded + 1
    /\ ppc' = [ppc EXCEPT ![t] = IF disp = "bus" /\ reg[t].priority = CRISIS
                                 THEN "load_critical" ELSE "idle"]
    /\ last' = IF disp = "bus" /\ reg[t].priority = CRISIS THEN last
               ELSE Op("submit", None, "True", FALSE, 0, FALSE)
    /\ UNCHANGED <<heap, clock, nextId, critical_events, reg>>
    /\ RaceFrame

\* `self.critical_events += 1`: the load.
load_critical(t) ==
    /\ ppc[t] = "load_critical"
    /\ reg' = [reg EXCEPT ![t].loaded = critical_events]
    /\ ppc' = [ppc EXCEPT ![t] = "store_critical"]
    /\ UNCHANGED <<heap, clock, nextId, total_requests, critical_events, last>>
    /\ RaceFrame

\* `self.critical_events += 1`: the store; publish returns the event id.
store_critical(t) ==
    /\ ppc[t] = "store_critical"
    /\ critical_events' = reg[t].loaded + 1
    /\ ppc' = [ppc EXCEPT ![t] = "idle"]
    /\ last' = Op("submit", None, "True", FALSE, 0, FALSE)
    /\ UNCHANGED <<heap, clock, nextId, total_requests, reg>>
    /\ RaceFrame

InitRace == Init /\ disp # "voice"

NextRace ==
    \E t \in Threads :
        \/ /\ nextId <= MaxSubmit
           /\ \E p \in Priorities(disp), tick \in Ticks : call_put(t, p, tick)
        \/ load_total(t)
        \/ store_total(t)
        \/ load_critical(t)
        \/ store_critical(t)

SpecRace == InitRace /\ [][NextRace]_vars

\* ------------------------------------------------------- counters and the worker
\* The Event Bus with publishers that run publish statement by statement
\* while the worker thread processes what they have put in the queue.
CountSubmit == 2

InitCount == Init /\ disp = "bus"

NextCount ==
    \/ \E t \in Threads :
          \/ /\ nextId <= CountSubmit
             /\ \E p \in {CRISIS, LOW} : call_put(t, p, 0)
          \/ load_total(t)
          \/ store_total(t)
          \/ load_critical(t)
          \/ store_critical(t)
    \/ Worker

SpecCount == InitCount /\ [][NextCount]_vars

\* ------------------------------------------------------------ escalation to crisis
\* The Cortex with the behavioral_capture module registered: the handler of
\* a request may find a passive danger assessment other than SAFE and then
\* submits, from the worker thread, a request "crisis_<time>" of priority
\* CRISIS before it returns.  Producers submit CRISIS and LOW requests;
\* EscalateSubmit submissions in all.
EscalateSubmit == 5

\* Marks the request submitted by the handler (its request_id "crisis_...").
crisis_ == 1

\* _handle_emotional_support, step 4: self.submit_request(priority=CRISIS,
\* mode=CRISIS, ...) called inside the handler, with the request in flight as
\* current_request.
WorkerEscalate(tick) ==
    /\ disp = "cortex"
    /\ wpc = "handling"
    /\ wpc' = "escalated"
    /\ LET req == Task(nextId, CRISIS, clock + tick, crisis_)
           r == heappush(heap, req)
       IN  /\ heap' = r.heap
           /\ is_processing' = IF ShouldInterrupt(CRISIS) THEN interrupt_current
                                ELSE is_processing
           /\ crisis_interventions' =
                  IF ShouldInterrupt(CRISIS) THEN crisis_interventions + 1
                  ELSE crisis_interventions
           /\ total_requests' = total_requests + 1
           /\ last' = Op("submit", req, "True", FALSE, 0, FALSE)
    /\ clock' = clock + tick
    /\ nextId' = nextId + 1
    /\ UNCHANGED <<disp, request, current_request, processing_active, critical_events,
                   total_events_processed>>
    /\ UNCHANGED busVars
    /\ UNCHANGED <<ctorVars, raceVars, otherVars>>

InitEscalate == Init /\ disp = "cortex"

NextEscalate ==
    \/ /\ nextId <= EscalateSubmit
       /\ \E p \in {CRISIS, CortexLOW}, tick \in Ticks : submit_request(p, tick)
    \/ /\ nextId <= EscalateSubmit
       /\ \E tick \in Ticks : WorkerEscalate(tick)
    \/ Worker

SpecEscalate == InitEscalate /\ [][NextEscalate]_vars

\* ------------------------------------------------------------------ audit trail
\* The Event Bus read through get_event_history while events of two types
\* are published at two priorities and processed.
AuditSubmit == 2
MaxLimit == 2

RECURSIVE SelectEvents(_, _, _)
\* [e for e in events if <test>], the two comprehensions of
\* get_event_history folded into one pass.
SelectEvents(events, event_type, since) ==
    IF events = <<>> THEN <<>>
    ELSE LET e == Head(events)
             keep == /\ (event_type # NoEventType => e.text = event_type)
                     /\ (since # NoSince => e.timestamp >= since)
         IN  (IF keep THEN <<e>> ELSE <<>>) \o SelectEvents(Tail(events), event_type, since)

RECURSIVE InsertRecentFirst(_, _)
\* One insertion of a stable descending sort: e goes after every event
\* whose timestamp is at least its own.
InsertRecentFirst(sorted, e) ==
    IF sorted = <<>> THEN <<e>>
    ELSE IF Head(sorted).timestamp >= e.timestamp
         THEN <<Head(sorted)>> \o InsertRecentFirst(Tail(sorted), e)
         ELSE <<e>> \o sorted

RECURSIVE SortRecentFirst_Fold(_, _)
SortRecentFirst_Fold(events, sorted) ==
    IF events = <<>> THEN sorted
    ELSE SortRecentFirst_Fold(Tail(events), InsertRecentFirst(sorted, Head(events)))

SortRecentFirst_Unsorted(events) == events

\* events.sort(key=lambda e: e.timestamp, reverse=True): stable, events of
\* equal timestamp keep the order they were recorded in.
SortRecentFirst(events) == SortRecentFirst_Fold(events, <<>>)

\* events[:limit] for limit >= 0.
Slice(events, limit) ==
    IF Len(events) <= limit THEN events ELSE SubSeq(events, 1, limit)

\* SierraEventBus.get_event_history(event_type, since, limit).
get_event_history(event_type, since, limit) ==
    /\ disp = "bus"
    /\ query' = [event_type |-> event_type, since |-> since, limit |-> limit,
                 events |-> Slice(SortRecentFirst(SelectEvents(event_history, event_type, since)),
                                  limit)]
    /\ last' = Op("get_event_history", None, "none", FALSE, 0, FALSE)
    /\ UNCHANGED <<disp, heap, clock, nextId, wpc, request, is_processing, current_request,
                   processing_active, crisis_interventions, total_requests, critical_events,
                   total_events_processed>>
    /\ UNCHANGED busVars
    /\ UNCHANGED <<ctorVars, raceVars, notify_list, unsubscribed, derekVars, audioVars>>

InitAudit == Init /\ disp = "bus"

NextAudit ==
    \/ /\ nextId <= AuditSubmit
       /\ \E event_type \in {danger_detected, empathy_generated}, p \in {CRISIS, LOW},
             tick \in Ticks : publish(event_type, p, tick)
    \/ \E event_type \in {NoEventType, danger_detected, empathy_generated},
          since \in {NoSince} \cup 0..MaxClock, limit \in 0..MaxLimit :
          get_event_history(event_type, since, limit)
    \/ Worker

SpecAudit == InitAudit /\ [][NextAudit]_vars

\* -------------------------------------------------------------------- unsubscribe
\* The Event Bus with subscribers that come and go while the worker runs
\* _process_event step by step: the audit trail and the copy of the
\* subscriber lists are taken under their locks, the callbacks are invoked
\* afterwards, one by one, with no lock held.
UnsubSubmit == 1

\* The worker's steps leave everything but the worker's own state alone.
NotifyFrame ==
    UNCHANGED <<disp, heap, clock, nextId, is_processing, current_request, processing_active,
                crisis_interventions, total_requests, critical_events, subscriptions,
                ctorVars, raceVars, query, unsubscribed, derekVars, audioVars>>

\* SierraEventBus.unsubscribe(event_type, subscriber_id): under
\* subscription_lock the list of the event type is rebuilt without the
\* subscriptions of that subscriber (and the key dropped when the list is
\* empty); returns True.
unsubscribe(event_type, subscriber_id) ==
    /\ disp = "bus"
    /\ subscriptions' = [subscriptions EXCEPT ![event_type] =
           SelectSeq(@, LAMBDA sub : sub.subscriber_id # subscriber_id)]
    /\ unsubscribed' = [event_type |-> event_type, subscriber_id |-> subscriber_id]
    /\ last' = Op("unsubscribe", None, "True", FALSE, 0, FALSE)
    /\ UNCHANGED <<disp, heap, clock, nextId, wpc, request, is_processing, current_request,
                   processing_active, crisis_interventions, total_requests, critical_events,
                   total_events_processed, event_history, delivery>>
    /\ UNCHANGED <<ctorVars, raceVars, query, notify_list, derekVars, audioVars>>

\* _process_event, first half: the event is recorded in the audit trail and
\* the subscriber lists are copied into the local list.
WorkerSnapshot ==
    /\ disp = "bus"
    /\ wpc = "handling"
    /\ wpc' = "notifying"
    /\ event_history' = RecordEvent(event_history, request)
    /\ notify_list' = Subscribers(request)
    /\ delivery' = [event |-> request, calls |-> <<>>]
    /\ last' = Op("snapshot", request, "none", FALSE, 0, FALSE)
    /\ UNCHANGED <<request, total_events_processed>>
    /\ NotifyFrame

\* _process_event, one turn of the loop over the local list: the
\* subscription is skipped by its priority filter or its callback is
\* invoked (whether it returns or raises, the loop goes on).
WorkerNotify ==
    /\ disp = "bus"
    /\ wpc = "notifying"
    /\ notify_list # <<>>
    /\ notify_list' = Tail(notify_list)
    /\ delivery' = IF PassesFilter(Head(notify_list), request)
                   THEN [delivery EXCEPT !.calls = Append(@, Head(notify_list))]
                   ELSE delivery
    /\ last' = Op(IF PassesFilter(Head(notify_list), request) THEN "callback" ELSE "skip",
                  request, "none", FALSE, 0, FALSE)
    /\ UNCHANGED <<wpc, request, event_history, total_events_processed>>
    /\ NotifyFrame

\* The loop is over: _process_event returns, task_done, the event is
\* counted.
WorkerNotified ==
    /\ disp = "bus"
    /\ wpc = "notifying"
    /\ notify_list = <<>>
    /\ wpc' = "loop"
    /\ request' = None
    /\ total_events_processed' = total_events_processed + 1
    /\ last' = Op("complete", request, "none", TRUE, 0, FALSE)
    /\ UNCHANGED <<notify_list, event_history, delivery>>
    /\ NotifyFrame

InitUnsub == Init /\ disp = "bus"

NextUnsub ==
    \/ /\ nextId <= UnsubSubmit
       /\ \E p \in {CRISIS, NORMAL} : publish(danger_detected, p, 0)
    \/ /\ Registered < MaxSubscribe
       /\ \E event_type \in {Star, danger_detected}, subscriber_id \in SubscriberIds,
             priority_filter \in {NoFilter, CRISIS} :
             subscribe(event_type, 1, subscriber_id, priority_filter)
    \/ \E event_type \in {Star, danger_detected}, subscriber_id \in SubscriberIds :
          unsubscribe(event_type, subscriber_id)
    \/ WorkerCheck
    \/ WorkerTimeout
    \/ WorkerDequeue
    \/ WorkerStart
    \/ WorkerSnapshot
    \/ WorkerNotify
    \/ WorkerNotified

SpecUnsub == InitUnsub /\ [][NextUnsub]_vars

\* ---------------------------------------------------------- Derek protocol client
\* The client between connect() and disconnect(): the event loop thread
\* runs _connection_handler, which connects, starts the send and receive
\* loops and waits for both.  The hub sends messages and the connection can
\* be lost at any moment; the application queues outgoing messages.
MaxAttempts == 2
MaxMessages == 2

\* The event loop has not stopped.
Running == loop \in {"running", "stopping"}

\* The client's steps leave the dispatchers alone.
DerekFrame ==
    UNCHANGED <<disp, heap, clock, nextId, wpc, request, is_processing, current_request,
                processing_active, crisis_interventions, total_requests, critical_events,
                total_events_processed, busVars, ctorVars, raceVars, query, notify_list,
                unsubscribed, audioVars, last>>

\* connect(): the event loop thread is started and runs _connection_handler.
connect ==
    /\ handler = "idle"
    /\ handler' = "connect"
    /\ loop' = "running"
    /\ UNCHANGED <<connected, websocket, send_task, receive_task, outgoing_queue,
                   messages_sent, messages_received, attempts>>
    /\ DerekFrame

\* _connection_handler, one turn of `while True` up to the gather:
\* websockets.connect succeeds (the client is marked connected, the CONNECT
\* message is queued, the two loops are started) or raises (the except
\* clause marks the client disconnected and sleeps).
Connect(ok) ==
    /\ Running
    /\ handler = "connect"
    /\ attempts' = attempts + 1
    /\ IF ok
       THEN /\ websocket' = "open"
            /\ connected' = TRUE
            /\ outgoing_queue' = outgoing_queue + 1
            /\ send_task' = "running"
            /\ receive_task' = "running"
            /\ handler' = "gather"
       ELSE /\ websocket' = "None"
            /\ connected' = FALSE
            /\ handler' = "sleep"
            /\ UNCHANGED <<outgoing_queue, send_task, receive_task>>
    /\ UNCHANGED <<messages_sent, messages_received, loop>>
    /\ DerekFrame

\* _connection_handler: asyncio.gather returns once both loops have ended;
\* the `async with` block closes the socket and `while True` goes round.
GatherReturns ==
    /\ Running
    /\ handler = "gather"
    /\ send_task = "done"
    /\ receive_task = "done"
    /\ handler' = "connect"
    /\ UNCHANGED <<connected, websocket, send_task, receive_task, outgoing_queue,
                   messages_sent, messages_received, attempts, loop>>
    /\ DerekFrame

\* _connection_handler: the 5 seconds of the except clause are over.
Reconnect ==
    /\ Running
    /\ handler = "sleep"
    /\ handler' = "connect"
    /\ UNCHANGED <<connected, websocket, send_task, receive_task, outgoing_queue,
                   messages_sent, messages_received, attempts, loop>>
    /\ DerekFrame

\* _send_loop, one turn of `while self.connected`: the loop ends when the
\* flag is False; otherwise a message is taken from the queue (the task
\* waits while it is empty) and sent; an exception of send is logged and
\* the loop goes on.
SendLoop ==
    /\ Running
    /\ send_task = "running"
    /\ IF ~connected
       THEN /\ send_task' = "done"
            /\ UNCHANGED <<outgoing_queue, messages_sent>>
       ELSE /\ outgoing_queue > 0
            /\ outgoing_queue' = outgoing_queue - 1
            /\ messages_sent' = IF websocket = "open" THEN messages_sent + 1
                                ELSE messages_sent
            /\ UNCHANGED send_task
    /\ UNCHANGED <<connected, websocket, handler, receive_task, messages_received, attempts, loop>>
    /\ DerekFrame

\* _receive_loop, one turn of `while self.connected`: the loop ends when the
\* flag is False; otherwise recv returns a message of the hub, which is
\* counted and handled, or raises on a lost connection; the exception is
\* logged and the loop goes on.
ReceiveLoop ==
    /\ Running
    /\ receive_task = "running"
    /\ IF ~connected
       THEN /\ receive_task' = "done"
            /\ UNCHANGED messages_received
       ELSE /\ websocket = "closed" \/ messages_received < MaxMessages
            /\ messages_received' = IF websocket = "open" THEN messages_received + 1
                                    ELSE messages_received
            /\ UNCHANGED receive_task
    /\ UNCHANGED <<connected, websocket, handler, send_task, outgoing_queue, messages_sent,
                   attempts, loop>>
    /\ DerekFrame

\* send_message and the heartbeat loop: a message is put in outgoing_queue.
Enqueue ==
    /\ handler # "idle"
    /\ outgoing_queue + messages_sent < MaxMessages
    /\ outgoing_queue' = outgoing_queue + 1
    /\ UNCHANGED <<connected, websocket, handler, send_task, receive_task, messages_sent,
                   messages_received, attempts, loop>>
    /\ DerekFrame

\* The network: the connection to the hub is lost; send and recv raise
\* from now on.
ConnectionLost ==
    /\ websocket = "open"
    /\ websocket' = "closed"
    /\ UNCHANGED <<connected, handler, send_task, receive_task, outgoing_queue,
                   messages_sent, messages_received, attempts, loop>>
    /\ DerekFrame

\* disconnect(): the flag is cleared, the socket is closed and the event
\* loop is asked to stop (call_soon_threadsafe), which it does at the end of
\* the turn in which it sees the request.
disconnect ==
    /\ loop = "running"
    /\ connected' = FALSE
    /\ websocket' = IF websocket = "open" THEN "closed" ELSE websocket
    /\ loop' = "stopping"
    /\ UNCHANGED <<handler, send_task, receive_task, outgoing_queue, messages_sent,
                   messages_received, attempts>>
    /\ DerekFrame

\* The event loop stops: run_until_complete raises and the loop is closed.
LoopStops ==
    /\ loop = "stopping"
    /\ loop' = "stopped"
    /\ UNCHANGED <<connected, websocket, handler, send_task, receive_task, outgoing_queue,
                   messages_sent, messages_received, attempts>>
    /\ DerekFrame

\* What the event loop thread runs.
EventLoop ==
    \/ /\ attempts < MaxAttempts
       /\ \E ok \in BOOLEAN : Connect(ok)
    \/ GatherReturns
    \/ Reconnect
    \/ SendLoop
    \/ ReceiveLoop
    \/ LoopStops

InitDerek == Init /\ disp = "cortex"

NextDerek ==
    \/ connect
    \/ disconnect
    \/ EventLoop
    \/ Enqueue
    \/ ConnectionLost

\* The event loop runs its tasks whenever one of them can go on.
SpecDerek == InitDerek /\ [][NextDerek]_vars /\ WF_vars(EventLoop)

\* ------------------------------------------------------------ audio safety system
\* Monitoring is started and stopped by the application; each start creates
\* a processing thread that takes audio chunks from audio_queue and, for an
\* assessment of CRITICAL or above, runs _handle_crisis.  A thread whose
\* get() outlasts a stop and the next start goes on beside the new one.
\* reset_crisis_mode() is called by the application at any moment.
MaxChunks == 3

\* The steps of the audio safety system leave everything else alone.
AudioFrame ==
    UNCHANGED <<disp, heap, clock, nextId, wpc, request, is_processing, current_request,
                processing_active, crisis_interventions, total_requests, critical_events,
                total_events_processed, busVars, ctorVars, raceVars, query, notify_list,
                unsubscribed, derekVars, last>>

\* start_monitoring(): refused while listening; otherwise the flag is set
\* and a processing thread is started.
start_monitoring ==
    /\ ~is_listening
    /\ \E t \in Threads :
          /\ apc[t] = "none"
          /\ \A u \in Threads : u < t => apc[u] # "none"
          /\ apc' = [apc EXCEPT ![t] = "get"]
    /\ is_listening' = TRUE
    /\ UNCHANGED <<crisis_mode_active, chunks, crisis_callbacks_run, crisis_messages>>
    /\ AudioFrame

\* stop_monitoring(): refused while not listening; otherwise the flag is
\* cleared.
stop_monitoring ==
    /\ is_listening
    /\ is_listening' = FALSE
    /\ UNCHANGED <<apc, crisis_mode_active, chunks, crisis_callbacks_run, crisis_messages>>
    /\ AudioFrame

\* _audio_processing_loop: `while self.is_listening` is evaluated (after a
\* chunk or after the timeout of get).
AudioLoop(t) ==
    /\ apc[t] = "get"
    /\ ~is_listening
    /\ apc' = [apc EXCEPT ![t] = "ended"]
    /\ UNCHANGED <<is_listening, crisis_mode_active, chunks, crisis_callbacks_run,
                   crisis_messages>>
    /\ AudioFrame

\* _audio_processing_loop and _process_audio_chunk up to the crisis
\* detection: a chunk is taken and assessed; critical: the danger level of
\* the assessment is CRITICAL or IMMEDIATE.
AudioChunk(t, critical) ==
    /\ apc[t] = "get"
    /\ is_listening
    /\ chunks' = chunks + 1
    /\ apc' = [apc EXCEPT ![t] = IF critical THEN "check" ELSE "get"]
    /\ UNCHANGED <<is_listening, crisis_mode_active, crisis_callbacks_run, crisis_messages>>
    /\ AudioFrame

\* _handle_crisis: `if self.crisis_mode_active: return`.
CrisisCheck(t) ==
    /\ apc[t] = "check"
    /\ apc' = [apc EXCEPT ![t] = IF crisis_mode_active THEN "get" ELSE "set"]
    /\ UNCHANGED <<is_listening, crisis_mode_active, chunks, crisis_callbacks_run,
                   crisis_messages>>
    /\ AudioFrame

\* _handle_crisis: `self.crisis_mode_active = True`.
CrisisSet(t) ==
    /\ apc[t] = "set"
    /\ crisis_mode_active' = TRUE
    /\ apc' = [apc EXCEPT ![t] = "callbacks"]
    /\ UNCHANGED <<is_listening, chunks, crisis_callbacks_run, crisis_messages>>
    /\ AudioFrame

\* _handle_crisis: the loop over crisis_callbacks; an exception of a
\* callback leaves _handle_crisis and ends the processing loop, whose
\* except clause clears is_listening.
CrisisCallbacks(t, ok) ==
    /\ apc[t] = "callbacks"
    /\ crisis_callbacks_run' = crisis_callbacks_run + 1
    /\ apc' = [apc EXCEPT ![t] = IF ok THEN "voice" ELSE "ended"]
    /\ is_listening' = IF ok THEN is_listening ELSE FALSE
    /\ UNCHANGED <<crisis_mode_active, chunks, crisis_messages>>
    /\ AudioFrame

\* _handle_crisis: voice_cortex.speak_crisis(...), then back to the loop.
CrisisVoice(t) ==
    /\ apc[t] = "voice"
    /\ crisis_messages' = crisis_messages + 1
    /\ apc' = [apc EXCEPT ![t] = "get"]
    /\ UNCHANGED <<is_listening, crisis_mode_active, chunks, crisis_callbacks_run>>
    /\ AudioFrame

\* reset_crisis_mode(): the flag is cleared.
reset_crisis_mode ==
    /\ crisis_mode_active' = FALSE
    /\ crisis_callbacks_run' = 0
    /\ crisis_messages' = 0
    /\ UNCHANGED <<is_listening, apc, chunks>>
    /\ AudioFrame

InitAudio == Init /\ disp = "voice"

NextAudio ==
    \/ start_monitoring
    \/ stop_monitoring
    \/ reset_crisis_mode
    \/ \E t \in Threads :
          \/ AudioLoop(t)
          \/ /\ chunks < MaxChunks
             /\ \E critical \in BOOLEAN : AudioChunk(t, critical)
          \/ CrisisCheck(t)
          \/ CrisisSet(t)
          \/ \E ok \in BOOLEAN : CrisisCallbacks(t, ok)
          \/ CrisisVoice(t)

SpecAudio == InitAudio /\ [][NextAudio]_vars

\* ------------------------------------------------------------------ claims
\* Steps of a behaviour, told by what they change.
SubmitStep == nextId' = nextId + 1
DequeueStep == wpc = "get" /\ wpc' = "got"
CompleteStep == wpc = "handling" /\ wpc' # "handling"

\* The worker is handling a request of priority other than the top one.
BusyWithLesser == wpc = "handling" /\ request.priority # CRISIS
\* The worker is handling a request of the top priority.
BusyWithCrisis == wpc = "handling" /\ request.priority = CRISIS
\* The interruption signal: the busy flag is cleared while the handler runs.
InterruptSignal == disp # "bus" /\ wpc = "handling" /\ ~is_processing

\* C1: whenever the worker dequeues a task, no task still pending in the
\* queue has a strictly more urgent (numerically lower) priority.
C1_MostUrgentFirst ==
    [][DequeueStep =>
          \A i \in 1..Len(heap') : heap'[i].priority >= request'.priority]_vars

\* C2: whenever the worker of the Cortex or of the Event Bus dequeues a
\* task, no task still pending with the same priority was submitted before
\* it (FIFO within a priority class), also when the timestamps are equal.
C2_FifoWithinPriority ==
    [][(disp # "voice" /\ DequeueStep) =>
          \A i \in 1..Len(heap') :
              heap'[i].priority = request'.priority => heap'[i].id > request'.id]_vars

\* C3: in the Cortex, every submit_request of priority CRISIS made while a
\* request of another priority is being handled increases
\* crisis_interventions by exactly 1 and leaves the interruption signal set.
C3_EveryQualifyingSubmitCounts ==
    [][(disp = "cortex" /\ SubmitStep /\ last'.priority = CRISIS /\ BusyWithLesser) =>
          (crisis_interventions' = crisis_interventions + 1 /\ InterruptSignal')]_vars

\* C4: submitting a CRITICAL task while a CRITICAL task is being handled
\* leaves the preemption counter and the busy flag as they are; the task in
\* flight stays in flight and the new one waits in the queue behind it.
C4_NoPreemptionAmongCriticals ==
    [][(disp # "bus" /\ SubmitStep /\ last'.priority = CRISIS /\ BusyWithCrisis) =>
          /\ crisis_interventions' = crisis_interventions
          /\ is_processing' = is_processing
          /\ ~InterruptSignal'
          /\ <<wpc', request', current_request'>> = <<wpc, request, current_request>>
          /\ request.id < last'.id
          /\ \E i \in 1..Len(heap') : heap'[i].id = last'.id]_vars

\* C4 witness: a CRITICAL task has just been submitted while another CRITICAL
\* task is being handled in the Cortex.
C4_Witness ==
    /\ disp = "cortex"
    /\ last.op = "submit" /\ last.priority = CRISIS
    /\ BusyWithCrisis /\ is_processing
    /\ crisis_interventions = 0

\* C5: the preemption counter changes, and the interruption signal is
\* raised, only in a step that submits a CRITICAL task while the worker is
\* handling a task of another priority.
C5_PreemptionOnlyOnCriticalWhileBusy ==
    [][(crisis_interventions' # crisis_interventions \/ (~InterruptSignal /\ InterruptSignal')) =>
          (SubmitStep /\ last'.priority = CRISIS /\ BusyWithLesser)]_vars

\* C5 witness: the worker is handling a task of lesser priority, a task of
\* a priority other than CRITICAL has just been submitted, and nothing was
\* counted or signalled.
C5_Witness ==
    /\ disp = "cortex"
    /\ last.op = "submit" /\ last.priority # CRISIS
    /\ BusyWithLesser /\ is_processing
    /\ crisis_interventions = 0

C7_CallbackExactlyOnce ==
    (disp = "cortex" /\ last.op = "complete" /\ last.has_callback) =>
        (last.cb = 1 /\ last.cb_success = last.ok)

\* C8: once shutdown() has been called, the worker dequeues no further task.
C8_NoDequeueAfterShutdown ==
    [][~processing_active => ~DequeueStep]_vars

\* C9: an enqueue attempted after shutdown() does not report success, adds
\* nothing to the queue and changes no counter.
C9_EnqueueAfterShutdownRejected ==
    [][(~processing_active /\ last'.op = "submit") =>
          /\ last'.ret # "True"
          /\ heap' = heap
          /\ <<total_requests', critical_events', crisis_interventions'>>
                 = <<total_requests, critical_events, crisis_interventions>>]_vars

\* C10: a shutdown() that follows a shutdown() raises no error and leaves
\* the state of the dispatcher as the first call left it.
C10_ShutdownIdempotent ==
    [][(last.op = "shutdown" /\ last'.op = "shutdown") =>
          (UNCHANGED DispatcherState /\ last'.ret # "error")]_vars

\* How many entries of a sequence equal x.
Count(seq, x) == Cardinality({i \in 1..Len(seq) : seq[i] = x})

\* A subscription matches an event: its event_type is the event's or the
\* wildcard, and it has no priority filter or the event's priority value is
\* at most the filter's.
Matches(sub, event) ==
    /\ sub.event_type = event.text \/ sub.event_type = Star
    /\ sub.priority_filter = NoFilter \/ event.priority <= sub.priority_filter

\* C11: when the Event Bus worker processes an event, every subscription of
\* the registry that matches the event has its callback invoked exactly once
\* (as many invocations as there are such entries), and a subscription that
\* does not match is not invoked.
C11_DeliveryToMatchingSubscribers ==
    [][(disp = "bus" /\ CompleteStep) =>
          \A k \in EventTypes : \A i \in 1..Len(subscriptions[k]) :
              LET sub == subscriptions[k][i]
              IN  Count(delivery'.calls, sub) =
                      IF Matches(sub, request) THEN Count(subscriptions[k], sub) ELSE 0]_vars

\* C12: when the callbacks raise while an event is delivered, every matching
\* subscription is still invoked, the event is counted as processed, and the
\* worker is back at the head of its loop, still active, with the pending
\* events untouched.
C12_SubscriberFailureIsolated ==
    [][(disp = "bus" /\ CompleteStep /\ ~last'.ok) =>
          /\ \A k \in EventTypes : \A i \in 1..Len(subscriptions[k]) :
                 LET sub == subscriptions[k][i]
                 IN  Matches(sub, request) =>
                         Count(delivery'.calls, sub) >= Count(subscriptions[k], sub)
          /\ total_events_processed' = total_events_processed + 1
          /\ wpc' = "loop"
          /\ heap' = heap
          /\ processing_active' = processing_active]_vars

\* C12 witness: an event has just been delivered to two subscriptions whose
\* callbacks raised, while another event is pending.
C12_Witness ==
    /\ disp = "bus"
    /\ last.op = "complete" /\ ~last.ok
    /\ Len(delivery.calls) = 2
    /\ delivery.calls[1].subscriber_id # delivery.calls[2].subscriber_id
    /\ heap # <<>>
    /\ total_events_processed = 1

\* C13: the subscriber registry holds at most one Subscription per
\* (event_type, subscriber_id) pair.
C13_OneSubscriptionPerPair ==
    \A k \in EventTypes : \A i, j \in 1..Len(subscriptions[k]) :
        subscriptions[k][i].subscriber_id = subscriptions[k][j].subscriber_id => i = j

\* The last n entries of a sequence.
LastN(seq, n) == SubSeq(seq, IF Len(seq) > n THEN Len(seq) - n + 1 ELSE 1, Len(seq))

Pending == {heap[i].id : i \in 1..Len(heap)}

\* C15: a published event is on its way to the audit trail at every moment:
\* an event waiting in the queue is, after any step, still waiting or in the
\* worker's hands, and an event in the worker's hands is, after any step,
\* still there or the newest entry of event_history.
C15_PublishedEventReachesHistory ==
    [][disp = "bus" =>
          /\ \A id \in Pending : id \in Pending' \/ id = request'.id
          /\ request # None =>
                 \/ request' = request
                 \/ /\ event_history' # <<>>
                    /\ event_history'[Len(event_history')] = request]_vars

\* C16: under concurrent first calls of a dispatcher's constructor, all
\* callers obtain the same object, and no more than one queue and one worker
\* thread are ever created for it: exactly one of each once every caller
\* has returned.
C16_SingletonConstructedOnce ==
    /\ instance <= 1
    /\ queues <= 1
    /\ workers <= 1
    /\ \A t \in Threads : obtained[t] \in {0, 1}
    /\ (\A t \in Threads : cpc[t] = "done") => (queues = 1 /\ workers = 1)

\* C17: within one dispatcher at most one task is being handled at any
\* moment.
C17_OneTaskAtATime ==
    Cardinality({w \in Threads : wstate[w] = "handling"}) <= 1

\* The tasks the dispatcher holds: those waiting in the queue and the one in
\* the worker's hands.
Live == Pending \cup (IF request # None THEN {request.id} ELSE {})

\* C18: every task is consumed at most once.  The tasks the dispatcher holds
\* are all different, each in one place only (the queue or the worker's
\* hands), and all submitted earlier; a step adds to them nothing but the
\* task being submitted.  So a task that has left, handled by the worker or
\* removed by the drain of shutdown(), is never held again.
C18_ConsumedAtMostOnce ==
    [][/\ Live' \subseteq Live \cup {nextId}
       /\ \A id \in Live : id < nextId
       /\ Cardinality(Pending') = Len(heap')
       /\ request'.id \notin Pending']_vars

\* C18 witness: shutdown() has just drained the queue of the Event Bus while
\* the worker holds an event it took before: of the events published, one
\* is in the worker's hands and the others were removed by the drain.
C18_Witness ==
    /\ disp = "bus"
    /\ last.op = "shutdown"
    /\ wpc = "got"
    /\ nextId >= 3
    /\ total_events_processed = 0
    /\ heap = <<>>

\* C19: under normal operation every task waiting in the queue is
\* eventually handled by the worker, whatever its priority, and the queue is
\* eventually empty for good.
C19_EveryTaskEventuallyProcessed ==
    /\ \A id \in 1..MaxSubmit :
           (id \in Pending) ~> (wpc = "handling" /\ request.id = id)
    /\ <>[](heap = <<>>)

\* C20: once every concurrent call of submit_request / publish has
\* returned, total_requests (total_events_published) is the number of calls
\* made and critical_events is the number of CRITICAL events published.
C20_CountersExactUnderConcurrency ==
    (\A t \in Threads : ppc[t] = "idle") =>
        /\ total_requests = nextId - 1
        /\ disp = "bus" =>
               critical_events = Cardinality({i \in 1..Len(heap) : heap[i].priority = CRISIS})

\* C21: the queue order is a strict total order on the tasks of a
\* dispatcher: of any two distinct pending tasks exactly one is ordered
\* before the other, and no insertion or removal fails on a comparison.
C21_StrictTotalOrder ==
    /\ last.ret # "error"
    /\ \A i, j \in 1..Len(heap) :
           i # j => (lt(heap[i], heap[j]) = "lt") # (lt(heap[j], heap[i]) = "lt")

\* C22: in the Voice Cortex, a speak() of priority CRITICAL that returns
\* while a request of another priority is being spoken leaves is_speaking
\* False and crisis_interruptions increased by exactly 1, with a CRITICAL
\* request at the head of the queue.
C22_VoiceCrisisInterrupts ==
    [][(disp = "voice" /\ SubmitStep /\ last'.priority = CRISIS /\ last'.ret = "True"
            /\ BusyWithLesser) =>
          /\ ~is_processing'
          /\ crisis_interventions' = crisis_interventions + 1
          /\ heap'[1].priority = CRISIS]_vars

\* C23: when silence() returns, the voice queue is empty and the Voice
\* Cortex is not speaking.
C23_SilenceStopsAllSpeech ==
    [][(disp = "voice" /\ last'.op = "silence" /\ last'.ret # "error") =>
          /\ heap' = <<>>
          /\ ~is_processing']_vars

\* C24: in the Cortex and the Voice Cortex the dispatcher is idle
\* (is_processing / is_speaking False, current_request None) whenever the
\* worker is not inside the processing of a task: from the end of one
\* processing, however it ended, to the start of the next.
C24_IdleBetweenTasks ==
    (disp # "bus" /\ wpc # "handling") => (~is_processing /\ current_request = None)

\* C24 witness: in the Cortex the processing of a request that a CRISIS
\* submission had interrupted has ended, and the worker has already taken
\* the CRISIS request from the queue.
C24_Witness ==
    /\ disp = "cortex"
    /\ wpc = "got"
    /\ crisis_interventions = 1
    /\ request.priority = CRISIS
    /\ ~is_processing /\ current_request = None

\* C25: the CRISIS request that the emotional-support handler submits is
\* processed next: while it is pending, the worker dequeues nothing but a
\* CRISIS request that was submitted before it.
C25_EscalationProcessedNext ==
    [][(disp = "cortex" /\ DequeueStep) =>
          \A i \in 1..Len(heap') :
              heap'[i].text = crisis_ =>
                  (request'.priority = CRISIS /\ request'.id < heap'[i].id)]_vars

\* The recorded events that a call of get_event_history asks for.
Wanted(q) ==
    {i \in 1..Len(event_history) :
        /\ (q.event_type # NoEventType => event_history[i].text = q.event_type)
        /\ (q.since # NoSince => event_history[i].timestamp >= q.since)}

Returned(q) == {q.events[i] : i \in 1..Len(q.events)}

\* C26: get_event_history returns at most limit events, each one a recorded
\* event that matches the event type and the instant given; the list is in
\* order of timestamp, most recent first, holds min(limit, number of
\* matching events) events, none older than a matching event left out; the
\* call changes nothing of the Event Bus.
C26_HistoryQuery ==
    [][last'.op = "get_event_history" =>
          LET q == query'
              wanted == {event_history[i] : i \in Wanted(q)}
          IN  /\ Len(q.events) <= q.limit
              /\ Returned(q) \subseteq wanted
              /\ \A i, j \in 1..Len(q.events) :
                     i < j => /\ q.events[i].timestamp >= q.events[j].timestamp
                              /\ q.events[i] # q.events[j]
              /\ Len(q.events) = IF Cardinality(wanted) <= q.limit THEN Cardinality(wanted)
                                 ELSE q.limit
              /\ \A r \in Returned(q), m \in wanted \ Returned(q) : r.timestamp >= m.timestamp
              /\ UNCHANGED <<heap, wpc, request, is_processing, current_request,
                             processing_active, total_requests, critical_events,
                             total_events_processed, subscriptions, event_history,
                             delivery>>]_vars

\* A call with limit 1 and no filter on a history of two events recorded
\* oldest timestamp first: the later one is returned.
C26_Witness ==
    /\ last.op = "get_event_history"
    /\ query.limit = 1 /\ query.event_type = NoEventType /\ query.since = NoSince
    /\ Len(event_history) = 2
    /\ event_history[1].timestamp < event_history[2].timestamp
    /\ query.events = <<event_history[2]>>

\* C27: the Event Bus never counts more processed events than published
\* ones (total_requests stands for total_events_published).
C27_ProcessedAtMostPublished ==
    disp = "bus" => total_events_processed <= total_requests

\* The subscriptions registered under an event type for a subscriber id.
RegisteredUnder(subs, event_type, subscriber_id) ==
    SelectSeq(subs[event_type], LAMBDA sub : sub.subscriber_id = subscriber_id)

\* C28: a callback is invoked only for a subscription that is registered at
\* that moment (none that an unsubscribe, already returned, has removed);
\* unsubscribe leaves the subscriptions of other subscriber ids and of other
\* event types as they were, and changes nothing when the pair is not
\* registered.
C28_NoCallbackAfterUnsubscribe ==
    [][/\ last'.op = "callback" =>
            \E i \in 1..Len(subscriptions[Head(notify_list).event_type]) :
                subscriptions[Head(notify_list).event_type][i] = Head(notify_list)
       /\ last'.op = "unsubscribe" =>
            /\ \A event_type \in EventTypes, subscriber_id \in SubscriberIds :
                   (event_type # unsubscribed'.event_type
                       \/ subscriber_id # unsubscribed'.subscriber_id) =>
                   RegisteredUnder(subscriptions', event_type, subscriber_id)
                       = RegisteredUnder(subscriptions, event_type, subscriber_id)
            /\ RegisteredUnder(subscriptions', unsubscribed'.event_type,
                               unsubscribed'.subscriber_id) = <<>>
            /\ RegisteredUnder(subscriptions, unsubscribed'.event_type,
                               unsubscribed'.subscriber_id) = <<>>
                   => subscriptions' = subscriptions]_vars

\* C29: once the connection to the hub is lost, the Derek client comes to
\* mark itself disconnected and goes on to a new connection attempt, unless
\* disconnect() is called first.
C29_DeadConnectionDetected ==
    (websocket = "closed" /\ loop = "running") ~>
        \/ ~connected /\ websocket = "None" /\ handler \in {"sleep", "connect"}
        \/ loop # "running"

\* C30: between two calls of reset_crisis_mode() the crisis callbacks are
\* run at most once and the crisis voice message is spoken at most once, and
\* crisis_mode_active, once True, is cleared by reset_crisis_mode() only.
C30_CrisisLatched ==
    [][/\ crisis_callbacks_run' <= 1
       /\ crisis_messages' <= 1
       /\ (crisis_mode_active /\ ~crisis_mode_active') => apc' = apc]_vars

====
